---- MODULE Spec2Model ----
(***************************************************************************)
(* Catalog reconciliation pipeline of MeteoriteDashboard: the identifier   *)
(* backfill scripts (fetch_ids, finish_fetching_ids, fill_remaining_ids,   *)
(* fix_names_and_ids), the dataset-update crawl (update_data) and the      *)
(* survivorship merge (update_data, clean_final_data).                     *)
(*                                                                         *)
(* A name is a sequence of one-character strings; the tokens "<b>", "</b>" *)
(* and "&nbsp;" stand for the markup the extractor strips from anchor text.*)
(* A dataset (pandas DataFrame) is a sequence of rows; a CSV file is a     *)
(* record [exists, rows].                                                  *)
(***************************************************************************)
EXTENDS Integers, Sequences, FiniteSets, TLC

VARIABLES
    readyFile,      \* Meteorite_Landings_Ready.csv
    finalFile,      \* Meteorite_Landings_Final.csv
    script,         \* the script of the current (or last) run
    pc,             \* "idle" | "crawl" | "apply": position in the running script
    page,           \* loop variable `page`
    df,             \* the DataFrame the script holds in memory
    name_id_map,    \* dict name -> id, in insertion order: sequence of [k, v]
    fetched,        \* page indices requested so far in this run, in order
    lastOutcome,    \* what the last requested page returned (see Classify)
    applies,        \* number of times this run applied the index to df
    slept,          \* whether the run slept (time.sleep) since its last request
    status,         \* how the last run ended, "running" while it runs
    cleanedFile,    \* Meteorite_Landings_Cleaned.csv
    updatedFile,    \* Meteorite_Landings_Updated.csv
    all_dfs,        \* update_data: the page tables collected so far
    snapBase,       \* merge: the base snapshot
    snapNew,        \* merge: the incremental snapshot
    merged,         \* merge: [done, rows], the merged dataset once computed
    window,         \* number of pages of its range a run is followed through
    extracted       \* lookup: the matches indexed so far, in extraction order

idvars == <<readyFile, finalFile, script, pc, page, df, name_id_map,
            fetched, lastOutcome, applies, slept, status>>
updvars == <<cleanedFile, updatedFile, all_dfs>>
mergevars == <<snapBase, snapNew, merged>>
auxvars == <<window, extracted>>
vars == <<idvars, updvars, mergevars, auxvars>>

-----------------------------------------------------------------------------
(* Bounds of the model *)

MaxRecords == 2     \* rows in the input dataset
MaxMatches == 1     \* anchor matches on one page
MaxPages == 2       \* pages of its range a run is followed through
MaxSnapshot == 1    \* rows in each snapshot given to the merge
MaxLongPages == 12  \* pages a checkpointing run is followed through
MaxExtracted == 3   \* matches extracted in one lookup session

(* Program constants *)

YearFloor == 2012
target_stop_year == 2012
KeepAfterYear == 2012
FinalYearFrom == 860
FinalYearTo == 2026
CheckpointEvery == 10
FetchIdsFirstPage == 0
FetchIdsStopPage == 25
FinishFirstPage == 0
FinishStopPage == 101
FillRemainingFirstPage == 100
FillRemainingStopPage == 181
FixNamesFirstPage == 0
FixNamesStopPage == 61

NaN == -9999        \* pandas missing value (NaN) of a numeric column

\* pd.to_numeric(col, errors='coerce').fillna(0)
to_numeric_fillna0(v) == IF v = NaN THEN 0 ELSE v

-----------------------------------------------------------------------------
(* Strings *)

Min(a, b) == IF a <= b THEN a ELSE b

Whitespace == {" "}

\* code points of the characters used, for str comparison
Ord(c) ==
    CASE c = " " -> 32
      [] c = "*" -> 42
      [] c = "A" -> 65
      [] c = "B" -> 66
      [] c = "a" -> 97
      [] c = "b" -> 98
      [] c = "n" -> 110
      [] OTHER -> 0

\* str.lower() on one character
LowerChar(c) ==
    CASE c = "A" -> "a"
      [] c = "B" -> "b"
      [] OTHER -> c

\* str.lower()
Lower(s) == [i \in 1..Len(s) |-> LowerChar(s[i])]

RECURSIVE LStrip(_)
LStrip(s) ==
    IF s # <<>> /\ Head(s) \in Whitespace THEN LStrip(Tail(s)) ELSE s

RECURSIVE RStrip(_)
RStrip(s) ==
    IF s # <<>> /\ s[Len(s)] \in Whitespace
    THEN RStrip(SubSeq(s, 1, Len(s) - 1))
    ELSE s

\* a plausible slip: lstrip() for strip()
StripLeftOnly(s) == LStrip(s)

\* str.strip()
Strip(s) == RStrip(LStrip(s))

\* the missing value in the name column, and str() of it
NaNName == <<"NaN">>
Str(name) == IF name = NaNName THEN <<"n", "a", "n">> ELSE name

\* str.replace('*', '', regex=False)
RemoveStar(s) == SelectSeq(s, LAMBDA c : c # "*")

\* re.sub(r'<[^>]+>', '', name_html)
Tags == {"<b>", "</b>"}
RemoveTags(s) == SelectSeq(s, LAMBDA c : c \notin Tags)

\* .replace('&nbsp;', ' ')
ReplaceNbsp(s) == [i \in 1..Len(s) |-> IF s[i] = "&nbsp;" THEN " " ELSE s[i]]

\* the extractor's cleanup of captured anchor text
CleanName(name_html) == Strip(ReplaceNbsp(RemoveTags(name_html)))

\* Python str comparison a < b
RECURSIVE StrLess(_, _)
StrLess(a, b) ==
    IF b = <<>> THEN FALSE
    ELSE IF a = <<>> THEN TRUE
    ELSE IF Ord(Head(a)) # Ord(Head(b)) THEN Ord(Head(a)) < Ord(Head(b))
    ELSE StrLess(Tail(a), Tail(b))

-----------------------------------------------------------------------------
(* CSV files *)

NoFile == [exists |-> FALSE, rows |-> <<>>]

\* df.to_csv(file, index=False): a missing name is written as an empty field
to_csv(frame) ==
    [exists |-> TRUE,
     rows |-> [i \in 1..Len(frame) |->
                 [frame[i] EXCEPT !.name = IF @ = NaNName THEN <<>> ELSE @]]]

\* pd.read_csv(file): an empty field is read as a missing value
read_csv(file) ==
    [i \in 1..Len(file.rows) |->
        [file.rows[i] EXCEPT !.name = IF @ = <<>> THEN NaNName ELSE @]]

-----------------------------------------------------------------------------
(* The lookup index *)

MapHas(m, k) == \E i \in 1..Len(m) : m[i].k = k

MapGet(m, k) == m[CHOOSE i \in 1..Len(m) : m[i].k = k].v

\* m[k] = v on a dict: an existing key keeps its position
MapSet(m, k, v) ==
    IF MapHas(m, k)
    THEN [i \in 1..Len(m) |-> IF m[i].k = k THEN [k |-> k, v |-> v] ELSE m[i]]
    ELSE Append(m, [k |-> k, v |-> v])

\* a plausible slip: name_id_map = {} inside the page loop
IndexMatchesOrReset(m, matches) ==
    IF matches = <<>> THEN <<>>
    ELSE MapSet(<<>>, CleanName(Head(matches).name_html), Head(matches).code)

\* for code, name_html in matches: name_id_map[clean_name] = int(code)
RECURSIVE IndexMatches(_, _)
IndexMatches(m, matches) ==
    IF matches = <<>> THEN m
    ELSE IndexMatches(MapSet(m, CleanName(Head(matches).name_html),
                             Head(matches).code),
                      Tail(matches))

\* {k.lower(): v for k, v in name_id_map.items()}
RECURSIVE LowerMapFrom(_, _)
LowerMapFrom(acc, m) ==
    IF m = <<>> THEN acc
    ELSE LowerMapFrom(MapSet(acc, Lower(Head(m).k), Head(m).v), Tail(m))

name_id_map_lower(m) == LowerMapFrom(<<>>, m)

-----------------------------------------------------------------------------
(* The reconciliation applier *)

\* (df['id'] == 0) | (df['id'].isna())
IsMissing(row) == row.id = 0 \/ row.id = NaN

\* a plausible slip: the mask is counted, not summed
missing_count_all(frame) == Len(frame)

missing_count(frame) == Cardinality({i \in 1..Len(frame) : IsMissing(frame[i])})

\* a plausible slip: missing values are normalised to 0 before any lookup
fill_id_nan_first(row, m) ==
    IF row.id = NaN THEN 0
    ELSE IF row.id # 0 THEN row.id
    ELSE LET name == Strip(Str(row.name)) IN
         IF MapHas(m, name) THEN MapGet(m, name)
         ELSE IF MapHas(name_id_map_lower(m), Lower(name))
              THEN MapGet(name_id_map_lower(m), Lower(name))
              ELSE 0

\* a plausible slip: the index is consulted for every row, resolved or not
fill_id_overwrite(row, m) ==
    LET name == Strip(Str(row.name)) IN
    IF MapHas(m, name) THEN MapGet(m, name)
    ELSE IF MapHas(name_id_map_lower(m), Lower(name))
         THEN MapGet(name_id_map_lower(m), Lower(name))
         ELSE IF row.id # NaN /\ row.id # 0 THEN row.id ELSE 0

\* a plausible slip: the "ID exists, keep it" guard is missing
fill_id_no_guard(row, m) ==
    LET name == Strip(Str(row.name)) IN
    IF MapHas(m, name) THEN MapGet(m, name)
    ELSE IF MapHas(name_id_map_lower(m), Lower(name))
         THEN MapGet(name_id_map_lower(m), Lower(name))
         ELSE 0

\* a plausible slip: the lowercase fallback is missing
fill_id_exact_only(row, m) ==
    IF row.id # NaN /\ row.id # 0 THEN row.id
    ELSE LET name == Strip(Str(row.name)) IN
         IF MapHas(m, name) THEN MapGet(m, name) ELSE 0

\* a plausible slip: the lowercase map is consulted before the exact one
fill_id_lower_first(row, m) ==
    IF row.id # NaN /\ row.id # 0 THEN row.id
    ELSE LET name == Strip(Str(row.name)) IN
         IF MapHas(name_id_map_lower(m), Lower(name))
         THEN MapGet(name_id_map_lower(m), Lower(name))
         ELSE IF MapHas(m, name) THEN MapGet(m, name) ELSE 0

fill_id(row, m) ==
    IF row.id # NaN /\ row.id # 0 THEN row.id
    ELSE LET name == Strip(Str(row.name)) IN
         IF MapHas(m, name) THEN MapGet(m, name)
         ELSE IF MapHas(name_id_map_lower(m), Lower(name))
              THEN MapGet(name_id_map_lower(m), Lower(name))
              ELSE 0

\* a plausible slip: the dataset is rebuilt from the names and the new ids
ApplyMapNamesAndIds(frame, m) ==
    [i \in 1..Len(frame) |-> [name |-> frame[i].name, id |-> fill_id(frame[i], m)]]

\* df['id'] = df.apply(fill_id, axis=1)
ApplyMap(frame, m) ==
    [i \in 1..Len(frame) |-> [frame[i] EXCEPT !.id = fill_id(frame[i], m)]]

-----------------------------------------------------------------------------
(* Inputs: datasets on disk and page bodies served by the catalog *)

DatasetNames == {<<"A">>, <<"A", "*">>, <<"B">>}
DatasetIds == {0, NaN, 7}
DatasetClasses == {"L6"}
IdRows == [name : DatasetNames, id : DatasetIds, recclass : DatasetClasses]

\* Meteorite_Landings_Ready.csv is written by clean_and_finalize: sorted by
\* name, one row per name
IsSortedByName(frame) ==
    \A i \in 1..Len(frame) - 1 : StrLess(frame[i].name, frame[i + 1].name)

ReadyDatasets ==
    {d \in UNION {[1..n -> IdRows] : n \in 1..MaxRecords} : IsSortedByName(d)}

PageCodes == {8, 9}
PageNames == {<<"a">>, <<"<b>", "A", "</b>", "&nbsp;">>}
Matches == [code : PageCodes, name_html : PageNames]
PageYearSets == {{}, {2020}, {2011, 2020}}

\* what one request returns: a failure (timeout, HTTP or network error), or a
\* body with its anchor matches and the 4-digit years of its table cells
PageBodies ==
    [failed : {FALSE},
     matches : UNION {[1..n -> Matches] : n \in 0..MaxMatches},
     years : PageYearSets]

FetchFailure == [failed |-> TRUE, matches |-> <<>>, years |-> {}]

PageOutcomes == PageBodies \cup {FetchFailure}

\* min([int(y) for y in years_on_page])
MinYear(years) == CHOOSE y \in years : \A z \in years : y <= z

\* what a page outcome is, read off the outcome alone
Classify(outcome) ==
    IF outcome.failed THEN "fail"
    ELSE IF outcome.matches = <<>> THEN "empty"
    ELSE IF outcome.years = {} THEN "undated"
    ELSE IF MinYear(outcome.years) < YearFloor THEN "below_floor"
    ELSE "records"

\* range(first, stop), followed for at most `window` pages
PageRange(first, stop) == first .. (Min(stop, first + window) - 1)

-----------------------------------------------------------------------------
(* Steps shared by the backfill scripts *)

\* a plausible slip: the early `return` is missing and the page loop is entered
EnterLoopInstead(name, how, frame) ==
    /\ script' = name
    /\ pc' = "crawl"
    /\ status' = "running"
    /\ df' = frame
    /\ page' = 0
    /\ name_id_map' = <<>>
    /\ fetched' = <<>>
    /\ lastOutcome' = "none"
    /\ applies' = 0
    /\ slept' = FALSE

\* the script returns before its page loop
ReturnEarly(name, how, frame) ==
    /\ script' = name
    /\ pc' = "idle"
    /\ status' = how
    /\ df' = frame
    /\ page' = 0
    /\ name_id_map' = <<>>
    /\ fetched' = <<>>
    /\ lastOutcome' = "none"
    /\ applies' = 0
    /\ slept' = FALSE

\* a plausible slip: the index is a module-level dict, never reset
EnterLoopKeepingIndex(name, frame, first) ==
    /\ script' = name
    /\ pc' = "crawl"
    /\ status' = "running"
    /\ df' = frame
    /\ page' = first
    /\ name_id_map' = name_id_map
    /\ fetched' = <<>>
    /\ lastOutcome' = "none"
    /\ applies' = 0
    /\ slept' = FALSE

\* name_id_map = {} and the page loop is entered
EnterLoop(name, frame, first) ==
    /\ script' = name
    /\ pc' = "crawl"
    /\ status' = "running"
    /\ df' = frame
    /\ page' = first
    /\ name_id_map' = <<>>
    /\ fetched' = <<>>
    /\ lastOutcome' = "none"
    /\ applies' = 0
    /\ slept' = FALSE

\* the for loop takes its next page, or falls through to the final apply
NextPage(first, stop) ==
    IF page + 1 \in PageRange(first, stop)
    THEN pc' = "crawl" /\ page' = page + 1
    ELSE pc' = "apply" /\ page' = page

\* a plausible slip: `return` for `break`
BreakAndReturn == pc' = "idle" /\ page' = page

\* break
Break == pc' = "apply" /\ page' = page

\* _apply_and_save(df, name_id_map, input_file)
apply_and_save(m) ==
    /\ df' = ApplyMap(df, m)
    /\ finalFile' = to_csv(df')
    /\ applies' = applies + 1

-----------------------------------------------------------------------------
(* fetch_ids.py: Ready -> Final, pages 0..24, a failed request ends the loop *)

FetchIdsStart ==
    /\ pc = "idle"
    /\ IF ~readyFile.exists
       THEN ReturnEarly("fetch_ids", "file_missing", <<>>)
       ELSE LET loaded == read_csv(readyFile) IN
            IF missing_count(loaded) = 0
            THEN ReturnEarly("fetch_ids", "no_missing", loaded)
            ELSE EnterLoop("fetch_ids", loaded, FetchIdsFirstPage)
    /\ UNCHANGED <<readyFile, finalFile>>
    /\ UNCHANGED <<updvars, mergevars, auxvars>>

\* except Exception: ... break
FetchIdsBreaks(outcome) == outcome.failed

FetchIdsPage ==
    /\ pc = "crawl" /\ script = "fetch_ids"
    /\ \E outcome \in PageOutcomes :
        /\ fetched' = Append(fetched, page)
        /\ lastOutcome' = Classify(outcome)
        /\ IF outcome.failed
           THEN UNCHANGED name_id_map
           ELSE name_id_map' = IndexMatches(name_id_map, outcome.matches)
        /\ IF FetchIdsBreaks(outcome)
           THEN Break /\ slept' = FALSE
           ELSE \* time.sleep(1)
                NextPage(FetchIdsFirstPage, FetchIdsStopPage) /\ slept' = TRUE
    /\ UNCHANGED <<readyFile, finalFile, script, df, applies, status>>
    /\ UNCHANGED <<updvars, mergevars, auxvars>>

FetchIdsApply ==
    /\ pc = "apply" /\ script = "fetch_ids"
    /\ apply_and_save(name_id_map)
    /\ pc' = "idle"
    /\ status' = "completed"
    /\ UNCHANGED <<readyFile, script, page, name_id_map, fetched, lastOutcome,
                   slept>>
    /\ UNCHANGED <<updvars, mergevars, auxvars>>

-----------------------------------------------------------------------------
(* finish_fetching_ids.py: Final -> Final, pages 0..100, year floor,        *)
(* intermediate save every 10 pages, a failed request is skipped           *)

FinishStart ==
    /\ pc = "idle"
    /\ IF ~finalFile.exists
       THEN ReturnEarly("finish_fetching_ids", "file_missing", <<>>)
       ELSE LET loaded == read_csv(finalFile) IN
            IF missing_count(loaded) = 0
            THEN ReturnEarly("finish_fetching_ids", "no_missing", loaded)
            ELSE EnterLoop("finish_fetching_ids", loaded, FinishFirstPage)
    /\ UNCHANGED <<readyFile, finalFile>>
    /\ UNCHANGED <<updvars, mergevars, auxvars>>

\* a plausible slip: the year check only prints, as in fill_remaining_ids
FinishBreaksNever(outcome) == FALSE

\* a plausible slip: a page without year tokens stops the scan as well
FinishBreaksWithoutYears(outcome) ==
    /\ outcome.matches # <<>>
    /\ (outcome.years = {} \/ MinYear(outcome.years) < YearFloor)

\* the auto stop: matches on the page and its oldest year below the floor
FinishBreaks(outcome) ==
    /\ outcome.matches # <<>>
    /\ outcome.years # {}
    /\ MinYear(outcome.years) < YearFloor

FinishPage ==
    /\ pc = "crawl" /\ script = "finish_fetching_ids"
    /\ \E outcome \in PageOutcomes :
        /\ fetched' = Append(fetched, page)
        /\ lastOutcome' = Classify(outcome)
        /\ IF outcome.failed
           THEN \* time.sleep(2)
                /\ NextPage(FinishFirstPage, FinishStopPage)
                /\ slept' = TRUE
                /\ UNCHANGED <<name_id_map, df, finalFile, applies>>
           ELSE /\ name_id_map' = IndexMatches(name_id_map, outcome.matches)
                /\ IF FinishBreaks(outcome)
                   THEN Break /\ slept' = FALSE /\ UNCHANGED <<df, finalFile, applies>>
                   ELSE /\ IF page % CheckpointEvery = 0 /\ page > 0
                           THEN apply_and_save(name_id_map')
                           ELSE UNCHANGED <<df, finalFile, applies>>
                        \* time.sleep(1)
                        /\ NextPage(FinishFirstPage, FinishStopPage)
                        /\ slept' = TRUE
    /\ UNCHANGED <<readyFile, script, status>>
    /\ UNCHANGED <<updvars, mergevars, auxvars>>

FinishApply ==
    /\ pc = "apply" /\ script = "finish_fetching_ids"
    /\ apply_and_save(name_id_map)
    /\ pc' = "idle"
    /\ status' = "completed"
    /\ UNCHANGED <<readyFile, script, page, name_id_map, fetched, lastOutcome,
                   slept>>
    /\ UNCHANGED <<updvars, mergevars, auxvars>>

-----------------------------------------------------------------------------
(* fill_remaining_ids.py: Final -> Final, pages 100..180, intermediate save *)
(* every 10 pages, no stop heuristic, a failed request is skipped          *)

FillRemainingStart ==
    /\ pc = "idle"
    /\ IF ~finalFile.exists
       THEN ReturnEarly("fill_remaining_ids", "file_missing", <<>>)
       ELSE LET loaded == read_csv(finalFile) IN
            IF missing_count(loaded) = 0
            THEN ReturnEarly("fill_remaining_ids", "no_missing", loaded)
            ELSE EnterLoop("fill_remaining_ids", loaded, FillRemainingFirstPage)
    /\ UNCHANGED <<readyFile, finalFile>>
    /\ UNCHANGED <<updvars, mergevars, auxvars>>

FillRemainingPage ==
    /\ pc = "crawl" /\ script = "fill_remaining_ids"
    /\ \E outcome \in PageOutcomes :
        /\ fetched' = Append(fetched, page)
        /\ lastOutcome' = Classify(outcome)
        /\ IF outcome.failed
           THEN UNCHANGED <<name_id_map, df, finalFile, applies>>
           ELSE /\ name_id_map' = IndexMatches(name_id_map, outcome.matches)
                /\ IF page % CheckpointEvery = 0
                   THEN apply_and_save(name_id_map')
                   ELSE UNCHANGED <<df, finalFile, applies>>
        \* time.sleep(1), time.sleep(2) after a failed request
        /\ NextPage(FillRemainingFirstPage, FillRemainingStopPage)
        /\ slept' = TRUE
    /\ UNCHANGED <<readyFile, script, status>>
    /\ UNCHANGED <<updvars, mergevars, auxvars>>

FillRemainingApply ==
    /\ pc = "apply" /\ script = "fill_remaining_ids"
    /\ apply_and_save(name_id_map)
    /\ pc' = "idle"
    /\ status' = "completed"
    /\ UNCHANGED <<readyFile, script, page, name_id_map, fetched, lastOutcome,
                   slept>>
    /\ UNCHANGED <<updvars, mergevars, auxvars>>

-----------------------------------------------------------------------------
(* fix_names_and_ids.py: Final -> Final, strips '*' from the names and     *)
(* saves, then pages 0..60, a failed request is skipped                    *)

\* df['name'].astype(str).str.contains(r'\*').sum()
dirty_count(frame) ==
    Cardinality({i \in 1..Len(frame) :
                    \E j \in 1..Len(Str(frame[i].name)) : Str(frame[i].name)[j] = "*"})

\* df['name'].astype(str).str.replace('*', '', regex=False).str.strip()
CleanNames(frame) ==
    IF dirty_count(frame) > 0
    THEN [i \in 1..Len(frame) |->
            [frame[i] EXCEPT !.name = Strip(RemoveStar(Str(@)))]]
    ELSE frame

FixNamesStart ==
    /\ pc = "idle"
    /\ IF ~finalFile.exists
       THEN /\ ReturnEarly("fix_names_and_ids", "file_missing", <<>>)
            /\ UNCHANGED finalFile
       ELSE LET cleaned == CleanNames(read_csv(finalFile)) IN
            /\ finalFile' = to_csv(cleaned)
            /\ IF missing_count(cleaned) = 0
               THEN ReturnEarly("fix_names_and_ids", "no_missing", cleaned)
               ELSE EnterLoop("fix_names_and_ids", cleaned, FixNamesFirstPage)
    /\ UNCHANGED readyFile
    /\ UNCHANGED <<updvars, mergevars, auxvars>>

FixNamesPage ==
    /\ pc = "crawl" /\ script = "fix_names_and_ids"
    /\ \E outcome \in PageOutcomes :
        /\ fetched' = Append(fetched, page)
        /\ lastOutcome' = Classify(outcome)
        /\ IF outcome.failed
           THEN UNCHANGED name_id_map
           ELSE name_id_map' = IndexMatches(name_id_map, outcome.matches)
        \* time.sleep(0.5) sits inside the try block, behind the request
        /\ NextPage(FixNamesFirstPage, FixNamesStopPage)
        /\ slept' = ~outcome.failed
    /\ UNCHANGED <<readyFile, finalFile, script, df, applies, status>>
    /\ UNCHANGED <<updvars, mergevars, auxvars>>

FixNamesApply ==
    /\ pc = "apply" /\ script = "fix_names_and_ids"
    /\ apply_and_save(name_id_map)
    /\ pc' = "idle"
    /\ status' = "completed"
    /\ UNCHANGED <<readyFile, script, page, name_id_map, fetched, lastOutcome,
                   slept>>
    /\ UNCHANGED <<updvars, mergevars, auxvars>>

-----------------------------------------------------------------------------
(* The dataset merger: update_data.py lines 174-179, clean_final_data.py    *)
(* lines 63-66                                                             *)

\* a plausible slip: na_position='first'
LatLessNaFirst(a, b) == b # NaN /\ (a = NaN \/ a < b)

\* order of two reclat values under na_position='last'
LatLess(a, b) == a # NaN /\ (b = NaN \/ a < b)

\* row order under sort_values(by=['name', 'reclat'], na_position='last')
RowLess(r1, r2) ==
    \/ StrLess(r1.name, r2.name)
    \/ r1.name = r2.name /\ LatLess(r1.reclat, r2.reclat)

\* the sort is stable: a row goes behind the rows it does not precede
RECURSIVE InsertSorted(_, _)
InsertSorted(sorted, r) ==
    IF sorted = <<>> THEN <<r>>
    ELSE IF RowLess(r, Head(sorted)) THEN <<r>> \o sorted
    ELSE <<Head(sorted)>> \o InsertSorted(Tail(sorted), r)

RECURSIVE SortFrom(_, _)
SortFrom(sorted, frame) ==
    IF frame = <<>> THEN sorted
    ELSE SortFrom(InsertSorted(sorted, Head(frame)), Tail(frame))

\* df.sort_values(by=['name', 'reclat'], na_position='last')
sort_values(frame) == SortFrom(<<>>, frame)

\* a plausible slip: duplicates are recognised by name and latitude
drop_duplicates_by_name_and_lat(frame) ==
    SelectSeq([i \in 1..Len(frame) |->
                 [row |-> frame[i],
                  dup |-> \E j \in 1..(i - 1) :
                            /\ frame[j].name = frame[i].name
                            /\ frame[j].reclat = frame[i].reclat]],
              LAMBDA e : ~e.dup)

\* a plausible slip: keep='last'
drop_duplicates_keep_last(frame) ==
    SelectSeq([i \in 1..Len(frame) |->
                 [row |-> frame[i],
                  dup |-> \E j \in (i + 1)..Len(frame) : frame[j].name = frame[i].name]],
              LAMBDA e : ~e.dup)

\* df.drop_duplicates(subset=['name'], keep='first'), rows tagged with
\* whether an earlier row has their name
drop_duplicates(frame) ==
    SelectSeq([i \in 1..Len(frame) |->
                 [row |-> frame[i],
                  dup |-> \E j \in 1..(i - 1) : frame[j].name = frame[i].name]],
              LAMBDA e : ~e.dup)

\* a plausible slip: a field merge, the survivor taking an id it lacks from a
\* losing record of its name
DeduplicateFillingIds(frame) ==
    LET kept == drop_duplicates(sort_values(frame))
        donors(n) == {i \in 1..Len(frame) : frame[i].name = n /\ frame[i].id # 0}
    IN  [i \in 1..Len(kept) |->
            [kept[i].row EXCEPT !.id =
                IF @ = 0 /\ donors(kept[i].row.name) # {}
                THEN frame[CHOOSE d \in donors(kept[i].row.name) : TRUE].id
                ELSE @]]

\* sort, then keep the first row of every name
Deduplicate(frame) ==
    LET kept == drop_duplicates(sort_values(frame))
    IN  [i \in 1..Len(kept) |-> kept[i].row]

\* pd.concat([df_base, df_new], ignore_index=True), sorted and deduplicated
MergeSnapshots(base, new) == Deduplicate(base \o new)

MergeNames == {<<"A">>, <<"B">>}
MergeIds == {0, 7}
MergeLats == {NaN, -19, 5}
MergeLongs == {NaN, 17}
MergeRows == [name : MergeNames, id : MergeIds,
              reclat : MergeLats, reclong : MergeLongs,
              mass : {5}, year_int : {2020}]
Snapshots == UNION {[1..n -> MergeRows] : n \in 0..MaxSnapshot}

\* cleaning.py keeps a record of mass 0 in the base; clean_and_finalize
\* drops it
MasslessRows == {[name |-> <<"A">>, id |-> 7, reclat |-> 5, reclong |-> 17,
                 mass |-> 0, year_int |-> 2020]}
BaseSnapshots ==
    UNION {[1..n -> MergeRows \cup MasslessRows] : n \in 0..MaxSnapshot}

\* a row of Meteorite_Landings_Updated.csv
UpdatedRow(n, i, m, y, lat) ==
    [name |-> n, id |-> i, recclass |-> "L6", mass |-> m, year_int |-> y,
     reclat |-> lat, reclong |-> 17]

\* Meteorite_Landings_Updated.csv as update_data writes it (sorted by name,
\* one row per name): with a record of mass 0, with a year beyond the valid
\* range, with a record without name, and with valid records only
UpdatedDatasets ==
    {<<UpdatedRow(<<"A">>, 7, 0, 2000, 5), UpdatedRow(<<"B">>, 0, 5, 2020, -19)>>,
     <<UpdatedRow(<<"A">>, 7, 5, 2000, 5), UpdatedRow(<<"B">>, 0, 5, 2027, -19)>>,
     <<UpdatedRow(<<"B">>, 0, 5, 2020, -19), UpdatedRow(NaNName, 7, 5, 2000, 5)>>,
     <<UpdatedRow(<<"A">>, NaN, 5, 2020, 5), UpdatedRow(<<"B">>, 0, 5, 2020, -19)>>}

\* the rows clean_and_finalize keeps: a name (an empty field is a missing
\* name), a mass above 0 and a year_int within the valid range (missing
\* numbers count as 0)
KeptByFinalize(r) ==
    /\ r.name \notin {NaNName, <<>>}
    /\ to_numeric_fillna0(r.mass) > 0
    /\ to_numeric_fillna0(r.year_int) >= FinalYearFrom
    /\ to_numeric_fillna0(r.year_int) <= FinalYearTo

\* the dataset clean_and_finalize saves for the dataset it loads: ghost rows
\* and rows of invalid mass or year removed, then sorted and deduplicated
clean_and_finalize(frame) == Deduplicate(SelectSeq(frame, KeptByFinalize))

InitMerge ==
    /\ snapBase \in BaseSnapshots
    /\ snapNew \in Snapshots
    /\ merged = [done |-> FALSE, rows |-> <<>>]
    /\ readyFile = NoFile
    /\ finalFile = NoFile
    /\ script = "none"
    /\ pc = "idle"
    /\ page = 0
    /\ df = <<>>
    /\ name_id_map = <<>>
    /\ fetched = <<>>
    /\ lastOutcome = "none"
    /\ applies = 0
    /\ slept = FALSE
    /\ status = "none"
    /\ cleanedFile = NoFile
    /\ updatedFile = NoFile
    /\ all_dfs = <<>>
    /\ window = MaxPages
    /\ extracted = <<>>

\* the merge of update_data: base snapshot first, scraped snapshot second,
\* saved as Meteorite_Landings_Updated.csv
MergeStep ==
    /\ ~merged.done
    /\ merged' = [done |-> TRUE, rows |-> MergeSnapshots(snapBase, snapNew)]
    /\ updatedFile' = to_csv(MergeSnapshots(snapBase, snapNew))
    /\ UNCHANGED <<snapBase, snapNew, idvars, cleanedFile, all_dfs, auxvars>>

\* clean_and_finalize, run between two runs of the other scripts: without
\* Meteorite_Landings_Updated.csv it returns, otherwise it rewrites
\* Meteorite_Landings_Ready.csv
FinalizeStep ==
    /\ pc = "idle"
    /\ IF updatedFile.exists
       THEN readyFile' = to_csv(clean_and_finalize(read_csv(updatedFile)))
       ELSE UNCHANGED readyFile
    /\ UNCHANGED <<finalFile, script, pc, page, df, name_id_map, fetched,
                   lastOutcome, applies, slept, status>>
    /\ UNCHANGED <<updvars, mergevars, auxvars>>

NextMerge ==
    \/ MergeStep
    \/ FinalizeStep

SpecMerge == InitMerge /\ [][NextMerge]_vars

-----------------------------------------------------------------------------
(* The backfill scripts, run one after another in any order, with          *)
(* clean_and_finalize rewriting the Ready dataset between them             *)

Init ==
    /\ \/ /\ readyFile \in {NoFile} \cup {to_csv(d) : d \in ReadyDatasets}
          /\ updatedFile = NoFile
       \/ /\ readyFile = NoFile
          /\ updatedFile \in {to_csv(d) : d \in UpdatedDatasets}
    /\ finalFile = NoFile
    /\ script = "none"
    /\ pc = "idle"
    /\ page = 0
    /\ df = <<>>
    /\ name_id_map = <<>>
    /\ fetched = <<>>
    /\ lastOutcome = "none"
    /\ applies = 0
    /\ slept = FALSE
    /\ status = "none"
    /\ cleanedFile = NoFile
    /\ all_dfs = <<>>
    /\ snapBase = <<>>
    /\ snapNew = <<>>
    /\ merged = [done |-> FALSE, rows |-> <<>>]
    /\ window = MaxPages
    /\ extracted = <<>>

Next ==
    \/ FetchIdsStart
    \/ FetchIdsPage
    \/ FetchIdsApply
    \/ FinishStart
    \/ FinishPage
    \/ FinishApply
    \/ FillRemainingStart
    \/ FillRemainingPage
    \/ FillRemainingApply
    \/ FixNamesStart
    \/ FixNamesPage
    \/ FixNamesApply
    \/ FinalizeStep

Spec == Init /\ [][Next]_vars

-----------------------------------------------------------------------------
(* update_data.py: the dataset-update crawl, then the merge with the base   *)

\* a results-table row as scraped: GeoLocation is missing or a text of parts,
\* each part a number (or none) with a direction letter
GeoSouthEast == [isna |-> FALSE,
                 parts |-> <<[num |-> 19, dir |-> "S"], [num |-> 17, dir |-> "E"]>>]
GeoMissing == [isna |-> TRUE, parts |-> <<>>]

\* rows of the results table: a recent find, a find older than the floor,
\* and a row whose year cell does not parse as a number
RecentRow == [name |-> <<"A">>, year |-> 2020, mass |-> 5, GeoLocation |-> GeoSouthEast]
OldRow == [name |-> <<"B">>, year |-> 2011, mass |-> 5, GeoLocation |-> GeoMissing]
UndatedRow == [name |-> <<"B">>, year |-> NaN, mass |-> 5, GeoLocation |-> GeoMissing]

\* the results tables a page can hold (newest first)
UpdateTables ==
    {<<>>, <<RecentRow>>, <<OldRow>>, <<RecentRow, OldRow>>, <<UndatedRow>>}

\* what one request returns: a failure, a body without a "Mass" table, a
\* table without a year column, or a table with its rows
UpdateOutcomes ==
    {[kind |-> k, rows |-> <<>>] : k \in {"fail", "no_table", "no_year"}}
    \cup {[kind |-> "table", rows |-> r] : r \in UpdateTables}

temp_years(chunk) == {to_numeric_fillna0(chunk[i].year) : i \in 1..Len(chunk)}

min_year(chunk) == CHOOSE y \in temp_years(chunk) : \A z \in temp_years(chunk) : y <= z
max_year(chunk) == CHOOSE y \in temp_years(chunk) : \A z \in temp_years(chunk) : y >= z

ClassifyUpdate(outcome) ==
    IF outcome.kind = "fail" THEN "fail"
    ELSE IF outcome.kind = "no_table" \/ (outcome.kind = "table" /\ outcome.rows = <<>>)
         THEN "empty"
    ELSE IF outcome.kind = "no_year" THEN "unusable"
    ELSE IF min_year(outcome.rows) < target_stop_year THEN "below_floor"
    ELSE "records"

\* parse_coord(coord_str, idx)
parse_coord(geo, idx) ==
    IF geo.isna THEN NaN
    ELSE IF Len(geo.parts) < 2 THEN NaN
    ELSE LET val == geo.parts[idx + 1] IN
         IF val.num = NaN THEN NaN
         ELSE IF idx = 0 /\ val.dir = "S" THEN 0 - val.num
         ELSE IF idx = 1 /\ val.dir = "W" THEN 0 - val.num
         ELSE val.num

RECURSIVE concat(_)
concat(frames) == IF frames = <<>> THEN <<>> ELSE Head(frames) \o concat(Tail(frames))

\* the processing of the collected rows, up to the merge
process(frames) ==
    LET kept == SelectSeq(concat(frames),
                          LAMBDA r : r.mass > 0 /\ to_numeric_fillna0(r.year) > KeepAfterYear)
    IN  [i \in 1..Len(kept) |->
            [name |-> kept[i].name,
             id |-> NaN,
             year |-> kept[i].year,
             year_int |-> to_numeric_fillna0(kept[i].year),
             mass |-> kept[i].mass,
             reclat |-> parse_coord(kept[i].GeoLocation, 0),
             reclong |-> parse_coord(kept[i].GeoLocation, 1)]]

\* a plausible slip: a body without a table is skipped like a table without
\* a year column
UpdateBreaksOnFailureOnly(outcome) == outcome.kind = "fail"

\* the three ways out of the loop by break: the request fails (except
\* Exception), the body has no "Mass" table (except ValueError), or the
\* table has no rows (int(min_year) of an empty column raises ValueError)
UpdateBreaks(outcome) ==
    \/ outcome.kind = "fail"
    \/ outcome.kind = "no_table"
    \/ outcome.kind = "table" /\ outcome.rows = <<>>

\* a plausible slip: the stop test of finish_fetching_ids, on the oldest year
UpdateStopsOnMinYear(chunk) == min_year(chunk) < target_stop_year

\* STOP LOGIC on a table with rows: its newest year is below the target year
\* and above 0
UpdateStops(chunk) ==
    /\ max_year(chunk) < target_stop_year
    /\ max_year(chunk) > 0

UpdateStart ==
    /\ pc = "idle"
    /\ script' = "update_data"
    /\ pc' = "crawl"
    /\ status' = "running"
    /\ page' = 0
    /\ all_dfs' = <<>>
    /\ fetched' = <<>>
    /\ lastOutcome' = "none"
    /\ df' = <<>>
    /\ name_id_map' = <<>>
    /\ applies' = 0
    /\ slept' = FALSE
    /\ UNCHANGED <<readyFile, finalFile, cleanedFile, updatedFile, mergevars, auxvars>>

\* one pass of `while keep_scraping`; the loop has no page ceiling, the model
\* follows it for `window` pages
UpdatePage ==
    /\ pc = "crawl" /\ script = "update_data"
    /\ page < window
    /\ \E outcome \in UpdateOutcomes :
        /\ fetched' = Append(fetched, page)
        /\ lastOutcome' = ClassifyUpdate(outcome)
        /\ IF UpdateBreaks(outcome)
           THEN pc' = "process" /\ page' = page /\ slept' = FALSE /\ UNCHANGED all_dfs
           ELSE /\ page' = page + 1
                /\ IF outcome.kind # "table" \/ outcome.rows = <<>>
                   THEN \* page += 1; continue
                        pc' = "crawl" /\ slept' = FALSE /\ UNCHANGED all_dfs
                   ELSE /\ all_dfs' = Append(all_dfs, outcome.rows)
                        \* page += 1; time.sleep(1)
                        /\ slept' = TRUE
                        /\ IF UpdateStops(outcome.rows)
                           THEN \* keep_scraping = False
                                pc' = "process"
                           ELSE pc' = "crawl"
    /\ UNCHANGED <<readyFile, finalFile, script, df, name_id_map, applies, status,
                   cleanedFile, updatedFile, mergevars, auxvars>>

\* after the loop: nothing collected, or process, merge with the base and save
UpdateProcess ==
    /\ pc = "process" /\ script = "update_data"
    /\ pc' = "idle"
    /\ IF all_dfs = <<>>
       THEN status' = "no_data" /\ UNCHANGED updatedFile
       ELSE /\ status' = "completed"
            /\ updatedFile' =
                 to_csv(MergeSnapshots(IF cleanedFile.exists
                                       THEN read_csv(cleanedFile) ELSE <<>>,
                                       process(all_dfs)))
    /\ UNCHANGED <<readyFile, finalFile, script, page, df, name_id_map, fetched,
                   lastOutcome, applies, slept, cleanedFile, all_dfs, mergevars,
                   auxvars>>

-----------------------------------------------------------------------------
(* One run of one script, from the datasets found on disk *)

\* Meteorite_Landings_Cleaned.csv is written by cleaning.py, which drops rows
\* without coordinates
CleanedDatasets ==
    {<<[name |-> <<"A">>, id |-> 7, year |-> 2000, year_int |-> 2000, mass |-> 5,
        reclat |-> 5, reclong |-> 17]>>}

InitRun ==
    /\ \/ /\ readyFile \in {to_csv(d) : d \in ReadyDatasets}
          /\ finalFile = NoFile
          /\ cleanedFile = NoFile
          /\ updatedFile = NoFile
       \/ /\ readyFile = NoFile
          /\ finalFile \in {to_csv(d) : d \in ReadyDatasets}
          /\ cleanedFile = NoFile
          /\ updatedFile = NoFile
       \/ /\ readyFile = NoFile
          /\ finalFile = NoFile
          /\ cleanedFile \in {NoFile} \cup {to_csv(d) : d \in CleanedDatasets}
          /\ updatedFile = NoFile
       \/ /\ readyFile = NoFile
          /\ finalFile = NoFile
          /\ cleanedFile = NoFile
          /\ updatedFile \in {to_csv(d) : d \in UpdatedDatasets}
    /\ script = "none"
    /\ pc = "idle"
    /\ page = 0
    /\ df = <<>>
    /\ name_id_map = <<>>
    /\ fetched = <<>>
    /\ lastOutcome = "none"
    /\ applies = 0
    /\ slept = FALSE
    /\ status = "none"
    /\ all_dfs = <<>>
    /\ snapBase = <<>>
    /\ snapNew = <<>>
    /\ merged = [done |-> FALSE, rows |-> <<>>]
    /\ window = MaxPages
    /\ extracted = <<>>

NextRun ==
    \/ script = "none" /\ FetchIdsStart
    \/ script = "none" /\ FinishStart
    \/ script = "none" /\ FillRemainingStart
    \/ script = "none" /\ FixNamesStart
    \/ script = "none" /\ UpdateStart
    \/ FetchIdsPage
    \/ FetchIdsApply
    \/ FinishPage
    \/ FinishApply
    \/ FillRemainingPage
    \/ FillRemainingApply
    \/ FixNamesPage
    \/ FixNamesApply
    \/ UpdatePage
    \/ UpdateProcess
    \/ FinalizeStep

SpecRun == InitRun /\ [][NextRun]_vars

-----------------------------------------------------------------------------
(* One run of a checkpointing script (finish_fetching_ids, fill_remaining_ids) *)
(* followed far enough into its range to meet its intermediate saves         *)

InitCheckpoint ==
    /\ readyFile = NoFile
    /\ finalFile \in {to_csv(d) : d \in ReadyDatasets}
    /\ cleanedFile = NoFile
    /\ script = "none"
    /\ pc = "idle"
    /\ page = 0
    /\ df = <<>>
    /\ name_id_map = <<>>
    /\ fetched = <<>>
    /\ lastOutcome = "none"
    /\ applies = 0
    /\ slept = FALSE
    /\ status = "none"
    /\ updatedFile = NoFile
    /\ all_dfs = <<>>
    /\ snapBase = <<>>
    /\ snapNew = <<>>
    /\ merged = [done |-> FALSE, rows |-> <<>>]
    /\ window = MaxLongPages
    /\ extracted = <<>>

NextCheckpoint ==
    \/ script = "none" /\ FinishStart
    \/ script = "none" /\ FillRemainingStart
    \/ FinishPage
    \/ FinishApply
    \/ FillRemainingPage
    \/ FillRemainingApply

SpecCheckpoint == InitCheckpoint /\ [][NextCheckpoint]_vars

-----------------------------------------------------------------------------
(* The lookup index and the applier on their own: matches are indexed one   *)
(* after another as the page loops index them, then the index is applied    *)

\* one name under three spellings, and another name
LookupRecordNames == {<<"A">>, <<"a">>, <<" ", "A", " ">>, <<"B">>}

LookupDatasets ==
    {<<r>> : r \in [name : LookupRecordNames, id : DatasetIds, recclass : DatasetClasses]}

\* the same spellings as anchor text
LookupHtmlNames == {<<"A">>, <<"a">>, <<" ", "A", "&nbsp;">>, <<"<b>", "B", "</b>">>}

LookupMatches == [code : PageCodes, name_html : LookupHtmlNames]

InitLookup ==
    /\ df \in LookupDatasets
    /\ name_id_map = <<>>
    /\ extracted = <<>>
    /\ applies = 0
    /\ readyFile = NoFile
    /\ finalFile = NoFile
    /\ cleanedFile = NoFile
    /\ updatedFile = NoFile
    /\ script = "none"
    /\ pc = "idle"
    /\ page = 0
    /\ fetched = <<>>
    /\ lastOutcome = "none"
    /\ slept = FALSE
    /\ status = "none"
    /\ all_dfs = <<>>
    /\ snapBase = <<>>
    /\ snapNew = <<>>
    /\ merged = [done |-> FALSE, rows |-> <<>>]
    /\ window = MaxPages

\* name_id_map[clean_name] = int(code), for the next match of the session
LookupExtract ==
    /\ applies = 0
    /\ Len(extracted) < MaxExtracted
    /\ \E match \in LookupMatches :
          /\ name_id_map' = IndexMatches(name_id_map, <<match>>)
          /\ extracted' = Append(extracted, match)
    /\ UNCHANGED <<readyFile, finalFile, script, pc, page, df, fetched,
                   lastOutcome, applies, slept, status, updvars, mergevars, window>>

\* df['id'] = df.apply(fill_id, axis=1)
LookupApply ==
    /\ applies = 0
    /\ df' = ApplyMap(df, name_id_map)
    /\ applies' = 1
    /\ UNCHANGED <<readyFile, finalFile, script, pc, page, name_id_map, fetched,
                   lastOutcome, slept, status, updvars, mergevars, auxvars>>

NextLookup ==
    \/ LookupExtract
    \/ LookupApply

SpecLookup == InitLookup /\ [][NextLookup]_vars

-----------------------------------------------------------------------------
(* One run of one script under fair scheduling: the process keeps executing *)
(* its next step                                                            *)

SpecRunFair == SpecRun /\ WF_vars(NextRun)

-----------------------------------------------------------------------------
(* Properties *)

BackfillScripts ==
    {"fetch_ids", "finish_fetching_ids", "fill_remaining_ids", "fix_names_and_ids"}

\* the pages of its range the model follows a script through
PageRangeOf(s) ==
    CASE s = "fetch_ids" -> PageRange(FetchIdsFirstPage, FetchIdsStopPage)
      [] s = "finish_fetching_ids" -> PageRange(FinishFirstPage, FinishStopPage)
      [] s = "fill_remaining_ids" ->
            PageRange(FillRemainingFirstPage, FillRemainingStopPage)
      [] s = "fix_names_and_ids" -> PageRange(FixNamesFirstPage, FixNamesStopPage)
      [] s = "update_data" -> 0 .. (window - 1)
      [] OTHER -> {}

Last(seq) == seq[Len(seq)]

IsResolved(row) == ~IsMissing(row)

resolved_count(frame) == Cardinality({i \in 1..Len(frame) : IsResolved(frame[i])})

InSession == pc \in {"crawl", "apply"}

\* C1: applying the lookup index to the dataset a second time gives exactly
\* the dataset the first application gave: for the dataset and index of every
\* state, and for the dataset a completed backfill run has just saved.
C1_ApplyIdempotent ==
    /\ ApplyMap(ApplyMap(df, name_id_map), name_id_map) = ApplyMap(df, name_id_map)
    /\ (status = "completed" /\ script \in BackfillScripts)
          => /\ ApplyMap(df, name_id_map) = df
             /\ finalFile = to_csv(df)

\* a backfill run has applied its index and resolved a record with it
C1_Witness ==
    /\ status = "completed"
    /\ script \in BackfillScripts
    /\ \E i \in DOMAIN df : df[i].id \in PageCodes

\* C2: in every step of a running backfill session, a record whose id is
\* non-zero (and present) has the same id afterwards, whatever the index maps
\* its name to.
C2_ResolvedIdKept ==
    [][InSession =>
          \A i \in DOMAIN df :
              IsResolved(df[i]) => (i \in DOMAIN df' /\ df'[i].id = df[i].id)]_vars

\* a run has applied an index that maps the name of a record with id 7 to 9
C2_Witness ==
    /\ status = "completed"
    /\ script \in BackfillScripts
    /\ \E i \in DOMAIN df :
          /\ df[i].id = 7
          /\ MapHas(name_id_map, Strip(Str(df[i].name)))
          /\ MapGet(name_id_map, Strip(Str(df[i].name))) = 9

\* C3: in every step of a running backfill session (page fetches that grow
\* the index, intermediate saves, the final apply) the number of records with
\* a resolved id does not decrease.
C3_ResolvedCountMonotone ==
    [][InSession => resolved_count(df') >= resolved_count(df)]_vars

\* a run applied its index at an intermediate save, indexed the records of a
\* later page, applied again, and holds a record it resolved
C3_Witness ==
    /\ applies >= 2
    /\ Len(fetched) >= 2
    /\ lastOutcome \in {"records", "undated", "below_floor"}
    /\ \E i \in DOMAIN df : df[i].id \in PageCodes

\* C4: whichever backfill script runs next and whatever its pages return,
\* once Meteorite_Landings_Final.csv exists it keeps existing, and every
\* record that holds a resolved id in it holds the same id after the step.
C4_FinalFileNeverRegresses ==
    [][finalFile.exists =>
          /\ finalFile'.exists
          /\ \A i \in DOMAIN finalFile.rows :
                IsResolved(finalFile.rows[i])
                   => /\ i \in DOMAIN finalFile'.rows
                      /\ finalFile'.rows[i].id = finalFile.rows[i].id]_vars

RowsNamed(frame, n) == SelectSeq(frame, LAMBDA r : r.name = n)

HasCoords(r) == r.reclat # NaN /\ r.reclong # NaN

\* each snapshot holds one record named n, one of the two with both
\* coordinates and the other with no latitude
C5_Case(n) ==
    /\ Len(RowsNamed(snapBase, n)) = 1
    /\ Len(RowsNamed(snapNew, n)) = 1
    /\ LET a == RowsNamed(snapBase, n)[1]
           b == RowsNamed(snapNew, n)[1]
       IN  \/ HasCoords(a) /\ b.reclat = NaN
           \/ HasCoords(b) /\ a.reclat = NaN

C5_Winner(n) ==
    IF HasCoords(RowsNamed(snapBase, n)[1])
    THEN RowsNamed(snapBase, n)[1]
    ELSE RowsNamed(snapNew, n)[1]

\* C5: when the two snapshots hold one record each of a name, one with
\* coordinates and one without a latitude, the merge keeps for that name
\* exactly the record with coordinates, with the base snapshot concatenated
\* first and with the scraped snapshot concatenated first; and the Ready
\* dataset clean_and_finalize then writes holds for that name that record,
\* or no record when its mass is not above 0.
C5_CoordinateRecordSurvives ==
    \A n \in MergeNames :
        C5_Case(n) =>
            /\ RowsNamed(MergeSnapshots(snapBase, snapNew), n) = <<C5_Winner(n)>>
            /\ RowsNamed(MergeSnapshots(snapNew, snapBase), n) = <<C5_Winner(n)>>
            /\ merged.done => RowsNamed(merged.rows, n) = <<C5_Winner(n)>>
            /\ readyFile.exists =>
                  RowsNamed(readyFile.rows, n) =
                     IF C5_Winner(n).mass > 0 THEN <<C5_Winner(n)>> ELSE <<>>

\* the merge has run on two such records, and clean_and_finalize after it
C5_Witness ==
    /\ merged.done
    /\ readyFile.exists
    /\ \E n \in MergeNames : C5_Case(n) /\ RowsNamed(readyFile.rows, n) # <<>>

\* C6: after the merge, for every name that some input record carries with a
\* valid coordinate pair, the surviving record of that name has a valid pair.
C6_ValidPairSurvives ==
    merged.done =>
        \A n \in MergeNames :
            (\E i \in DOMAIN (snapBase \o snapNew) :
                /\ (snapBase \o snapNew)[i].name = n
                /\ HasCoords((snapBase \o snapNew)[i]))
            => \A j \in DOMAIN merged.rows :
                  merged.rows[j].name = n => HasCoords(merged.rows[j])

NamesIn(frame) == {frame[i].name : i \in DOMAIN frame}

\* C7: the merged dataset holds exactly one record for every name of the
\* concatenated inputs and no record of any other name.
C7_OneRecordPerName ==
    merged.done =>
        /\ NamesIn(merged.rows) = NamesIn(snapBase \o snapNew)
        /\ \A n \in NamesIn(snapBase \o snapNew) : Len(RowsNamed(merged.rows, n)) = 1

\* the merge has collapsed two records of one name
C7_Witness ==
    /\ merged.done
    /\ Len(merged.rows) < Len(snapBase \o snapNew)

\* C8 as stated: after a page with zero extracted records the session is no
\* longer in its page loop.
C8_EmptyPageHalts == lastOutcome = "empty" => pc # "crawl"

\* C8 as amended: in update_data a page without a data table (or without
\* rows) ends the page loop, and the run then ends normally, saving the merge
\* of what it gathered, or nothing when it gathered nothing (the file is
\* then absent or as an earlier run left it); in the backfill
\* scripts a page without extracted records does not end the loop: the next
\* page of the range is up, and the run ends normally with what its index
\* resolves saved.
C8_EmptyPageRule ==
    lastOutcome = "empty" =>
        IF script = "update_data"
        THEN /\ pc # "crawl"
             /\ pc = "idle" =>
                  /\ status = (IF all_dfs = <<>> THEN "no_data" ELSE "completed")
                  /\ status = "no_data" =>
                        updatedFile \in {NoFile} \cup {to_csv(d) : d \in UpdatedDatasets}
                  /\ status = "completed" =>
                        updatedFile =
                           to_csv(MergeSnapshots(IF cleanedFile.exists
                                                 THEN read_csv(cleanedFile) ELSE <<>>,
                                                 process(all_dfs)))
        ELSE /\ Last(fetched) + 1 \in PageRangeOf(script)
                  => pc = "crawl" /\ page = Last(fetched) + 1
             /\ pc = "idle" =>
                  /\ status = "completed"
                  /\ finalFile = to_csv(df)
                  /\ ApplyMap(df, name_id_map) = df

\* update_data gathered a page, met a page without a table, and saved
C8_Witness ==
    /\ script = "update_data"
    /\ lastOutcome = "empty"
    /\ status = "completed"
    /\ updatedFile.exists

NonEmptyMatchLists == UNION {[1..n -> Matches] : n \in 1..MaxMatches}

\* C9: in finish_fetching_ids, after a page with extracted records whose
\* oldest year is below the floor no page is requested; the step that meets
\* such a page indexes its records and leaves the loop for the final apply;
\* and the final apply applies the index as it then stands and saves.
C9_YearFloorStops ==
    [][script = "finish_fetching_ids" =>
          /\ lastOutcome = "below_floor" => fetched' = fetched
          /\ (lastOutcome' = "below_floor" /\ fetched' # fetched)
                => /\ pc' = "apply"
                   /\ \E ms \in NonEmptyMatchLists :
                         name_id_map' = IndexMatches(name_id_map, ms)
                   /\ name_id_map' # <<>>
          /\ (pc = "apply" /\ pc' = "idle")
                => /\ df' = ApplyMap(df, name_id_map)
                   /\ finalFile' = to_csv(df')]_vars

\* the only page of a run was below the floor and the final apply resolved a
\* record from it
C9_Witness ==
    /\ script = "finish_fetching_ids"
    /\ lastOutcome = "below_floor"
    /\ status = "completed"
    /\ fetched = <<FinishFirstPage>>
    /\ \E i \in DOMAIN df : df[i].id \in PageCodes

\* C10: after a failed request for page p the session is in its page loop at
\* page p + 1 (when the range has such a page), and no page is requested twice.
C10_FailedPageSkipped ==
    /\ (lastOutcome = "fail" /\ Last(fetched) + 1 \in PageRangeOf(script))
          => pc = "crawl" /\ page = Last(fetched) + 1
    /\ \A i, j \in DOMAIN fetched : i # j => fetched[i] # fetched[j]

CheckpointingScripts == {"finish_fetching_ids", "fill_remaining_ids"}

\* the requested pages that are positive multiples of CheckpointEvery
CheckpointPages(pages) ==
    {i \in DOMAIN pages : pages[i] % CheckpointEvery = 0 /\ pages[i] > 0}

\* C11: when a checkpointing session is about to fetch page p + 1 and p is a
\* positive multiple of 10, the index as it stands has been applied to the
\* dataset and saved to the target file, and that has happened once for
\* every such page requested so far, whatever those pages returned.
C11_CheckpointEveryTenPages ==
    (/\ script \in CheckpointingScripts
     /\ pc = "crawl"
     /\ fetched # <<>>
     /\ Last(fetched) % CheckpointEvery = 0
     /\ Last(fetched) > 0)
    => /\ applies = Cardinality(CheckpointPages(fetched))
       /\ finalFile = to_csv(df)
       /\ ApplyMap(df, name_id_map) = df

\* C12: in a checkpointing session that has written a checkpoint, every step
\* (a page of any outcome, a later checkpoint, the final save) leaves the
\* target file in place with every record that holds a non-zero id in it
\* holding the same id, under the same name.
C12_CheckpointedIdsKept ==
    [][(script \in CheckpointingScripts /\ InSession /\ applies >= 1) =>
          /\ finalFile'.exists
          /\ \A i \in DOMAIN finalFile.rows :
                IsResolved(finalFile.rows[i])
                   => /\ i \in DOMAIN finalFile'.rows
                      /\ finalFile'.rows[i] = finalFile.rows[i]]_vars

\* finish_fetching_ids saved at page 10 an id it had indexed, the request for
\* page 11 failed, and the final save has run
C12_Witness ==
    /\ script = "finish_fetching_ids"
    /\ status = "completed"
    /\ applies = 2
    /\ Last(fetched) = CheckpointEvery + 1
    /\ lastOutcome = "fail"
    /\ \E i \in DOMAIN finalFile.rows : finalFile.rows[i].id \in PageCodes

\* the dataset file a script loads is absent (files are never removed)
InputAbsent(s) ==
    CASE s = "fetch_ids" -> ~readyFile.exists
      [] s \in {"finish_fetching_ids", "fill_remaining_ids", "fix_names_and_ids"}
            -> ~finalFile.exists
      [] s = "update_data" -> ~cleanedFile.exists
      [] OTHER -> FALSE

\* a step of a script's run: its start, or a step of the running script
\* (clean_and_finalize runs between runs and is none of them)
RunStep == script' # script \/ pc # "idle"

\* C13 as stated: every step of a run whose input dataset is absent leaves
\* the run aborted with its message, no page requested and no file written.
C13_MissingInputAborts ==
    [][(RunStep /\ InputAbsent(script')) =>
          /\ pc' = "idle"
          /\ status' = "file_missing"
          /\ fetched' = <<>>
          /\ UNCHANGED <<readyFile, finalFile, cleanedFile, updatedFile>>]_vars

\* C13 as amended: a backfill run whose input dataset is absent aborts at
\* once with its message, no page requested and no file written; update_data
\* reads its base dataset only after the crawl, and when the base is absent
\* it goes on with an empty base and saves the processed scraped records.
C13_MissingInputRule ==
    [][/\ (RunStep /\ script' \in BackfillScripts /\ InputAbsent(script')) =>
             /\ pc' = "idle"
             /\ status' = "file_missing"
             /\ fetched' = <<>>
             /\ UNCHANGED <<readyFile, finalFile, cleanedFile, updatedFile>>
       /\ (/\ script = "update_data"
           /\ pc = "process"
           /\ ~cleanedFile.exists
           /\ all_dfs # <<>>) =>
             /\ status' = "completed"
             /\ fetched' = fetched /\ fetched # <<>>
             /\ updatedFile' = to_csv(Deduplicate(process(all_dfs)))]_vars

\* a backfill run has found its input dataset absent
C13_Witness ==
    /\ script \in BackfillScripts
    /\ status = "file_missing"
    /\ ~readyFile.exists
    /\ ~finalFile.exists

Entries(m) == {m[i] : i \in DOMAIN m}

\* C14: whenever a backfill run applies its index, a record whose id is 0 or
\* empty gets the id indexed under its trimmed name when the index holds that
\* name, else an id indexed under a name equal to it up to letter case when
\* the index holds one, and id 0 when the index holds neither.
C14_MissingIdFilled ==
    [][(applies' = applies + 1 /\ script' \in BackfillScripts) =>
          \A i \in DOMAIN df :
              IsMissing(df[i]) =>
                  LET n == Strip(Str(df[i].name))
                      exact == {e \in Entries(name_id_map') : e.k = n}
                      loose == {e \in Entries(name_id_map') : Lower(e.k) = Lower(n)}
                  IN  /\ df'[i].name = df[i].name
                      /\ IF exact # {} THEN \E e \in exact : df'[i].id = e.v
                         ELSE IF loose # {} THEN \E e \in loose : df'[i].id = e.v
                         ELSE df'[i].id = 0]_vars

\* a run has resolved a record named "A" from an index that holds only "a",
\* and left another record unresolved
C14_Witness ==
    /\ script \in BackfillScripts
    /\ status = "completed"
    /\ ~MapHas(name_id_map, <<"A">>)
    /\ MapHas(name_id_map, <<"a">>)
    /\ \E i, j \in DOMAIN df :
          /\ df[i].name = <<"A">>
          /\ df[i].id = MapGet(name_id_map, <<"a">>)
          /\ df[j].id = 0

\* compareKey(name) = lowercase(trim(name)), on a dataset name and on the
\* text of an anchor
RECURSIVE Trim(_)
Trim(s) ==
    IF s = <<>> THEN s
    ELSE IF Head(s) = " " THEN Trim(Tail(s))
    ELSE IF s[Len(s)] = " " THEN Trim(SubSeq(s, 1, Len(s) - 1))
    ELSE s

CompareKey(name) == Lower(Trim(name))
AnchorKey(name_html) == CompareKey(ReplaceNbsp(RemoveTags(name_html)))

\* the ids extracted so far under some spelling of a name
CodesFor(name) ==
    {extracted[j].code : j \in {k \in DOMAIN extracted :
                                   AnchorKey(extracted[k].name_html) = CompareKey(name)}}

\* C15: when the index is applied, a record with a missing id whose name
\* differs from an extracted name only by letter case or by leading and
\* trailing whitespace gets an id extracted under one of those spellings.
C15_SpellingsShareKey ==
    [][applies' = applies + 1 =>
          \A i \in DOMAIN df :
              (IsMissing(df[i]) /\ CodesFor(Str(df[i].name)) # {})
                 => df'[i].id \in CodesFor(Str(df[i].name))]_vars

\* the record " A " has been resolved by the only match, extracted as "a"
C15_Witness ==
    /\ applies = 1
    /\ df[1].name = <<" ", "A", " ">>
    /\ df[1].id = 9
    /\ extracted = <<[code |-> 9, name_html |-> <<"a">>]>>

\* the latest extracted occurrence of the normalized name of occurrence j
LatestOf(j) ==
    CHOOSE k \in DOMAIN extracted :
        /\ AnchorKey(extracted[k].name_html) = AnchorKey(extracted[j].name_html)
        /\ \A l \in DOMAIN extracted :
              AnchorKey(extracted[l].name_html) = AnchorKey(extracted[j].name_html)
                 => l <= k

\* C16: for every name extracted in the session, the lowercase map returns
\* for its normalized form the id of the latest extracted occurrence of that
\* normalized name, and so does the exact-name map under every spelling of
\* it that it holds.
C16_LastWriteWins ==
    \A j \in DOMAIN extracted :
        LET n == AnchorKey(extracted[j].name_html)
            latest == extracted[LatestOf(j)].code
        IN  /\ MapHas(name_id_map_lower(name_id_map), n)
            /\ MapGet(name_id_map_lower(name_id_map), n) = latest
            /\ \A e \in Entries(name_id_map) : Lower(e.k) = n => e.v = latest

\* the years of a scraped table, a year that does not parse counting as 0
YearsOf(chunk) ==
    {IF chunk[i].year = NaN THEN 0 ELSE chunk[i].year : i \in DOMAIN chunk}

\* C17 as stated: after a page whose years are all numbers and whose oldest
\* year is below the floor, update_data is no longer in its page loop.
C17_MinYearStops ==
    (/\ script = "update_data"
     /\ lastOutcome = "below_floor"
     /\ all_dfs # <<>>
     /\ 0 \notin YearsOf(Last(all_dfs)))
    => pc # "crawl"

\* C17 as amended: the step of update_data that collects the table of a page
\* leaves the page loop exactly when every year of the table is below the
\* floor and some year is above 0, and otherwise goes on to the next page;
\* once out of the loop, update_data requests no page.
C17_MaxYearStops ==
    [][script = "update_data" =>
          /\ (fetched' # fetched /\ all_dfs' # all_dfs) =>
                /\ (pc' = "process") <=>
                      /\ \A y \in YearsOf(Last(all_dfs')) : y < target_stop_year
                      /\ \E y \in YearsOf(Last(all_dfs')) : y > 0
                /\ pc' # "process" => (pc' = "crawl" /\ page' = page + 1)
          /\ pc # "crawl" => fetched' = fetched]_vars

\* update_data went on after a page with years 2020 and 2011 and stopped
\* after a page with year 2011 only
C17_Witness ==
    /\ script = "update_data"
    /\ pc = "process"
    /\ all_dfs = <<(<<RecentRow, OldRow>>), (<<OldRow>>)>>
    /\ fetched = <<0, 1>>

\* the first page of a script's range
FirstPageOf(s) ==
    CASE s = "fetch_ids" -> FetchIdsFirstPage
      [] s = "finish_fetching_ids" -> FinishFirstPage
      [] s = "fill_remaining_ids" -> FillRemainingFirstPage
      [] s = "fix_names_and_ids" -> FixNamesFirstPage
      [] OTHER -> 0

\* C18: a session in its page loop is at a page below its page ceiling, the
\* ceilings being those of the ranges as the model follows them (`window`
\* pages from the first page of the script).
C18_PageCeiling ==
    pc = "crawl" => page < FirstPageOf(script) + window

\* C19: a session that has requested a page requests its next page only
\* after it has slept since the earlier request.
C19_DelayBetweenRequests ==
    [][(fetched # <<>> /\ Len(fetched') = Len(fetched) + 1) => slept]_vars

\* a backfill session leaves its page loop only for the final apply; the
\* final apply applies the index as it stands, saves, requests nothing and
\* ends the run; a completed run requests no page
FinalApplyStep ==
    script \in BackfillScripts =>
        /\ (pc = "crawl" /\ pc' # "crawl") => pc' = "apply"
        /\ pc = "apply" =>
              /\ pc' = "idle"
              /\ status' = "completed"
              /\ applies' = applies + 1
              /\ df' = ApplyMap(df, name_id_map)
              /\ finalFile' = to_csv(df')
              /\ fetched' = fetched
        /\ status = "completed" => fetched' = fetched

\* C20: every step of a backfill session is as FinalApplyStep says (the page
\* loop is left only for the final apply-and-save, after which no page is
\* requested), and a session in its page loop eventually completes, however
\* its page loop ends.
C20_FinalApplyAfterLastFetch ==
    [][FinalApplyStep]_vars
       /\ ((script \in BackfillScripts /\ pc = "crawl") ~> (status = "completed"))

\* fetch_ids indexed a page, the next request failed, and the final apply
\* saved the id the first page resolved
C20_Witness ==
    /\ script = "fetch_ids"
    /\ status = "completed"
    /\ Len(fetched) = 2
    /\ lastOutcome = "fail"
    /\ finalFile.exists
    /\ \E i \in DOMAIN finalFile.rows : finalFile.rows[i].id \in PageCodes

\* the text of an anchor, without markup and surrounding whitespace
AnchorText(name_html) == Trim(ReplaceNbsp(RemoveTags(name_html)))

\* the occurrences extracted so far under exactly the trimmed name
ExactOccurrences(name) ==
    {k \in DOMAIN extracted : AnchorText(extracted[k].name_html) = Trim(name)}

\* C21: when the index is applied, a record with a missing id whose trimmed
\* name was extracted with exactly that spelling gets the id of the latest
\* such occurrence, whatever ids were extracted under other spellings of it.
C21_ExactBeatsLowercase ==
    [][applies' = applies + 1 =>
          \A i \in DOMAIN df :
              (IsMissing(df[i]) /\ ExactOccurrences(Str(df[i].name)) # {})
                 => \E k \in ExactOccurrences(Str(df[i].name)) :
                       /\ \A l \in ExactOccurrences(Str(df[i].name)) : l <= k
                       /\ df'[i].id = extracted[k].code]_vars

\* the record "A" got the id extracted under "A" although "a" was extracted
\* later with another id
C21_Witness ==
    /\ applies = 1
    /\ df[1].name = <<"A">>
    /\ df[1].id = 8
    /\ extracted = <<[code |-> 8, name_html |-> <<"A">>],
                     [code |-> 9, name_html |-> <<"a">>]>>

\* C22: whenever a backfill run matches the names of its dataset against its
\* index, no name of the dataset carries the '*' marker.
C22_CleanupBeforeMatching ==
    [][(script' \in BackfillScripts /\ applies' = applies + 1)
          => dirty_count(df) = 0]_vars

\* C23 as stated: the merged dataset is the one the merge gives with the
\* scraped snapshot concatenated first.
C23_MergeOrderIndependent ==
    merged.done => merged.rows = MergeSnapshots(snapNew, snapBase)

\* latitude a comes before latitude b in the pre-sort
SmallerLat(a, b) == a # NaN /\ (b = NaN \/ a < b)

\* the first record of name n in c that no record of that name precedes in
\* the pre-sort
FirstBest(c, n) ==
    c[CHOOSE i \in DOMAIN c :
         /\ c[i].name = n
         /\ \A j \in DOMAIN c :
               c[j].name = n => ~SmallerLat(c[j].reclat, c[i].reclat)
         /\ \A j \in 1..(i - 1) :
               c[j].name = n => SmallerLat(c[i].reclat, c[j].reclat)]

\* two different records of one name have the same latitude, or both none
HasTie(c) ==
    \E i, j \in DOMAIN c :
        /\ c[i].name = c[j].name
        /\ c[i].reclat = c[j].reclat
        /\ c[i] # c[j]

\* C23 as amended: for every name the survivor is the record with the
\* smallest latitude (a missing latitude last) and, among records of equal
\* latitude, the one that comes first in the concatenation; so the merge is
\* the same in both concatenation orders when no two different records of a
\* name have the same latitude.
C23_MergeOrderRule ==
    merged.done =>
        /\ \A n \in NamesIn(snapBase \o snapNew) :
              /\ RowsNamed(merged.rows, n) = <<FirstBest(snapBase \o snapNew, n)>>
              /\ RowsNamed(MergeSnapshots(snapNew, snapBase), n)
                    = <<FirstBest(snapNew \o snapBase, n)>>
        /\ ~HasTie(snapBase \o snapNew)
              => merged.rows = MergeSnapshots(snapNew, snapBase)

\* two records of one name and latitude that differ in their id have been
\* merged, and the base record has survived
C23_Witness ==
    /\ merged.done
    /\ Len(snapBase) = 1 /\ Len(snapNew) = 1
    /\ snapBase[1].name = snapNew[1].name
    /\ snapBase[1].reclat = 5 /\ snapNew[1].reclat = 5
    /\ snapBase[1].id = 7 /\ snapNew[1].id = 0
    /\ merged.rows = snapBase

\* C24: every record of the merged dataset is, field for field, one of the
\* records of the concatenated inputs, and so is every record of the Ready
\* dataset clean_and_finalize writes from it.
C24_SurvivorIsAnInputRecord ==
    /\ merged.done =>
          \A j \in DOMAIN merged.rows :
              \E i \in DOMAIN (snapBase \o snapNew) :
                  (snapBase \o snapNew)[i] = merged.rows[j]
    /\ readyFile.exists =>
          \A j \in DOMAIN readyFile.rows :
              \E i \in DOMAIN (snapBase \o snapNew) :
                  (snapBase \o snapNew)[i] = readyFile.rows[j]

\* the record with coordinates and id 0 has survived a record of its name
\* with id 7 and no coordinates, and still has id 0
C24_Witness ==
    /\ merged.done
    /\ Len(snapBase) = 1 /\ Len(snapNew) = 1
    /\ snapBase[1].name = snapNew[1].name
    /\ snapBase[1].id = 7 /\ snapBase[1].reclat = NaN
    /\ snapNew[1].id = 0 /\ HasCoords(snapNew[1])
    /\ merged.rows = snapNew
    /\ readyFile.exists
    /\ readyFile.rows = snapNew

\* a step that requests a page whose fetch fails, or whose body yields no
\* anchor match or no data table, leaves the lookup index, the dataset in
\* memory apart from ids an intermediate save fills, and the collected page
\* tables as they were, and leaves the run running, in its page loop or at
\* its final apply or processing step
BadPageStep ==
    (Len(fetched') = Len(fetched) + 1 /\ lastOutcome' \in {"fail", "empty"}) =>
        /\ name_id_map' = name_id_map
        /\ all_dfs' = all_dfs
        /\ Len(df') = Len(df)
        /\ \A i \in DOMAIN df : df'[i].name = df[i].name
        /\ status' = "running"
        /\ pc' \in {"crawl", "apply", "process"}

\* C25: every step that meets a failed, unparsable or matchless page is as
\* BadPageStep says (the index is neither extended nor changed, the run is
\* not ended by the page), and the run then goes on to end normally, with
\* its final apply or its processing step done.
C25_BadPageIsHarmless ==
    [][BadPageStep]_vars
       /\ ((lastOutcome \in {"fail", "empty"} /\ status = "running")
              ~> (pc = "idle" /\ status \in {"completed", "no_data"}))

\* a run indexed a page, met a page without matches, and completed with the
\* id of the first page assigned
C25_Witness ==
    /\ script \in BackfillScripts
    /\ status = "completed"
    /\ Len(fetched) = 2
    /\ lastOutcome = "empty"
    /\ name_id_map # <<>>
    /\ \E i \in DOMAIN df : df[i].id \in PageCodes

\* C26: in finish_fetching_ids, after a page with extracted records and no
\* year token, the records are in the index and the session is in its page
\* loop at the next page of its range (at its final apply when the range has
\* no further page).
C26_NoYearTokenContinues ==
    (/\ script = "finish_fetching_ids"
     /\ lastOutcome = "undated"
     /\ status = "running")
    => /\ name_id_map # <<>>
       /\ IF Last(fetched) + 1 \in PageRangeOf(script)
          THEN pc = "crawl" /\ page = Last(fetched) + 1
          ELSE pc = "apply"

\* finish_fetching_ids is at page 1 after a first page with records and no
\* year token
C26_Witness ==
    /\ script = "finish_fetching_ids"
    /\ lastOutcome = "undated"
    /\ pc = "crawl"
    /\ page = FinishFirstPage + 1
    /\ fetched = <<FinishFirstPage>>
    /\ name_id_map # <<>>

\* Sessions one after another: fetch_ids writes the Final dataset,
\* finish_fetching_ids loads and rewrites it; either may be run again
NextSessions ==
    \/ FetchIdsStart
    \/ FetchIdsPage
    \/ FetchIdsApply
    \/ FinishStart
    \/ FinishPage
    \/ FinishApply
    \/ FinalizeStep

SpecSessions == Init /\ [][NextSessions]_vars

\* C27: across runs of the backfill scripts, every session starts its page
\* loop with an empty index; within a session the index changes only by
\* indexing the matches of a page the session requests; and every record that
\* goes from a missing id to a resolved one gets an id the index holds under
\* a spelling of the record's name.
C27_IndexIsPerSession ==
    [][/\ (pc = "idle" /\ pc' = "crawl") => name_id_map' = <<>>
       /\ (pc # "idle" /\ name_id_map' # name_id_map) =>
             /\ Len(fetched') = Len(fetched) + 1
             /\ \E ms \in NonEmptyMatchLists :
                   name_id_map' = IndexMatches(name_id_map, ms)
       /\ \A i \in DOMAIN df :
             (InSession /\ IsMissing(df[i]) /\ i \in DOMAIN df' /\ IsResolved(df'[i]))
                => \E e \in Entries(name_id_map') :
                      /\ Lower(e.k) = CompareKey(Str(df[i].name))
                      /\ e.v = df'[i].id]_vars

\* a finish_fetching_ids session has completed on a dataset in which an
\* earlier fetch_ids session resolved a record: the record keeps that id, and
\* the index of this session, rebuilt from its own pages, holds another id
\* under the record's name and not the earlier one
C27_Witness ==
    /\ script = "finish_fetching_ids"
    /\ status = "completed"
    /\ \E i \in DOMAIN df :
          /\ df[i].id \in PageCodes
          /\ \A e \in Entries(name_id_map) : e.v # df[i].id
          /\ \E e \in Entries(name_id_map) :
                Lower(e.k) = CompareKey(Str(df[i].name))

\* C28: a step that applies the index keeps the number and order of the
\* records, changes no record with a resolved id, changes nothing but the id
\* of any other record, saves exactly that dataset, and (in the final apply,
\* which does nothing else) leaves the index as it was.
C28_ApplyChangesIdsOnly ==
    [][applies' = applies + 1 =>
          /\ Len(df') = Len(df)
          /\ \A i \in DOMAIN df :
                /\ IsResolved(df[i]) => df'[i] = df[i]
                /\ [df'[i] EXCEPT !.id = df[i].id] = df[i]
          /\ finalFile' = to_csv(df')
          /\ pc = "apply" => name_id_map' = name_id_map]_vars

\* a run has applied its index to a dataset of two records, one resolved by
\* it and one that held id 7
C28_Witness ==
    /\ script \in BackfillScripts
    /\ status = "completed"
    /\ name_id_map # <<>>
    /\ Len(df) = 2
    /\ \E i, j \in DOMAIN df : df[i].id \in PageCodes /\ df[j].id = 7
    /\ \A i \in DOMAIN df : df[i].recclass = "L6"

\* no two records of the dataset have the same name
DistinctNames(frame) ==
    \A i, j \in DOMAIN frame : i # j => frame[i].name # frame[j].name

\* C29: when fix_names_and_ids starts on a dataset with one record per
\* distinct name, the dataset it saves after stripping the '*' marker has one
\* record per distinct name.
C29_CleanupKeepsNamesDistinct ==
    [][(/\ pc = "idle"
        /\ RunStep
        /\ script' = "fix_names_and_ids"
        /\ finalFile.exists
        /\ DistinctNames(read_csv(finalFile)))
       => DistinctNames(read_csv(finalFile'))]_vars

\* the dataset file a backfill script loads
InputOf(s) == IF s = "fetch_ids" THEN readyFile ELSE finalFile

Ids(frame) == [i \in DOMAIN frame |-> frame[i].id]

\* C30: a backfill run that loads a dataset in which no id is 0 or empty ends
\* at once, with no page requested, the ids in memory those it loaded, and
\* the ids in the dataset files as they were.
C30_NothingMissingNothingDone ==
    [][(/\ pc = "idle"
        /\ RunStep
        /\ script' \in BackfillScripts
        /\ InputOf(script').exists
        /\ \A i \in DOMAIN InputOf(script').rows :
              InputOf(script').rows[i].id \notin {0, NaN})
       => /\ pc' = "idle"
          /\ status' = "no_missing"
          /\ fetched' = <<>>
          /\ Ids(df') = Ids(InputOf(script').rows)
          /\ readyFile' = readyFile
          /\ finalFile'.exists = finalFile.exists
          /\ Ids(finalFile'.rows) = Ids(finalFile.rows)]_vars

\* fix_names_and_ids has ended on a dataset without missing ids
C30_Witness ==
    /\ script = "fix_names_and_ids"
    /\ status = "no_missing"
    /\ df # <<>>
    /\ fetched = <<>>
    /\ finalFile = to_csv(df)

====
